---- MODULE Spec2Model ----
(***************************************************************************)
(* Model of src/app.py: the long/short sentiment dashboard.                *)
(*                                                                         *)
(* Numbers.  A ratio is an integer number of ten-thousandths (Binance      *)
(* reports the account ratio with four decimals, "0.6543" is 6543), and a  *)
(* percentage is an integer number of hundredths of a percent (65.00% is   *)
(* 6500), so ratio * 100 keeps the same integer.  The EMA is computed      *)
(* exactly, as a numerator over a power of 43.  That denominator is odd,   *)
(* so the exact value of a series of n samples is never at a rounding tie  *)
(* and stays at least 1/(2*43^(n-1)) away from one, far more than the      *)
(* error of the program's float64 arithmetic: the rounded results are      *)
(* those of the program.                                                   *)
(*                                                                         *)
(* Strings.  The program's Chinese diagnostics are written in English.     *)
(***************************************************************************)
EXTENDS Integers, Sequences, FiniteSets, TLC

\* ---------------------------------------------------------------- bounds
\* Longest series an upstream answer carries in the model (the program
\* asks for at most 100 records).
MaxLen == 3

\* ------------------------------------------------------ program constants
DefaultSymbols == <<"BTCUSDT", "ETHUSDT", "BNBUSDT", "SOLUSDT">>
WINDOW_SIZE == 42
\* ewm(span=N): alpha = 2 / (N + 1)
AlphaNum == 2
AlphaDen == WINDOW_SIZE + 1
\* 50.0, the neutral reading, in hundredths of a percent
Neutral == 5000
\* 100, in hundredths of a percent
Hundred == 10000
\* long_v >= 65 and long_v <= 35, in hundredths of a percent
LongThreshold == 6500
ShortThreshold == 3500
\* time.sleep(10)
SleepSeconds == 10

\* --------------------------------------------------------- Python values
\* Optional string: None is <<>>, the string s is <<s>>.
None == <<>>
Str(s) == <<s>>
\* Python truthiness of an optional string (`if error:`).
Truthy(e) == e # None /\ e[1] # ""

Range(s) == {s[i] : i \in 1..Len(s)}

\* str(list_of_names), without the quotes
RECURSIVE ListStr(_)
ListStr(s) ==
  IF s = <<>> THEN ""
  ELSE IF Len(s) = 1 THEN s[1]
  ELSE s[1] \o ", " \o ListStr(Tail(s))

\* ------------------------------------------------------- upstream answers
\* A value of the ratio column as the API delivers it: a decimal (string or
\* number), or a text float() cannot convert.
Num(v) == [kind |-> "number", val |-> v]
Unparsable == [kind |-> "text", val |-> 0]
\* Ratios in [0, 1] (ten-thousandths): the extremes and both sides of the
\* two thresholds.
RatioVals == {0, 3500, 3501, 6499, 6500, 10000}
RawVals == {Num(v) : v \in RatioVals} \cup {Unparsable}

SeriesOf(S) == UNION {[1..n -> S] : n \in 1..MaxLen}
Constant(n, v) == [i \in 1..n |-> v]

\* The column layouts of an answer: the ratio under longAccount, under
\* longAccountRatio, under both, under neither.
ColsLong == <<"symbol", "longAccount", "timestamp">>
ColsRatio == <<"symbol", "longAccountRatio", "timestamp">>
ColsBoth == <<"symbol", "longAccount", "longAccountRatio", "timestamp">>
ColsNeither == <<"symbol", "longShortRatio", "timestamp">>

\* An answer: isNone (the call returned None), the columns of its records,
\* the number of records, and the two ratio columns (<<>> when absent).
Answer(none, cols, n, la, lar) ==
  [isNone |-> none, columns |-> cols, rows |-> n,
   longAccount |-> la, longAccountRatio |-> lar]
NoAnswer == Answer(TRUE, <<>>, 0, <<>>, <<>>)
EmptyList == Answer(FALSE, <<>>, 0, <<>>, <<>>)
\* With both columns present the second one is a constant column, numeric
\* or unparsable.
DecoyVals == {Num(10000), Unparsable}
Answers ==
  {NoAnswer, EmptyList}
  \cup {Answer(FALSE, ColsLong, Len(s), s, <<>>) : s \in SeriesOf(RawVals)}
  \cup {Answer(FALSE, ColsRatio, Len(s), <<>>, s) : s \in SeriesOf(RawVals)}
  \cup {Answer(FALSE, ColsBoth, Len(s), s, Constant(Len(s), d)) :
          s \in SeriesOf(RawVals), d \in DecoyVals}
  \cup {Answer(FALSE, ColsNeither, n, <<>>, <<>>) : n \in 1..MaxLen}

\* Exceptions a client call raises: the class and str(e).
Exc(t, m) == [type |-> t, msg |-> m]
NoExc == Exc("", "")
Exceptions ==
  {Exc("AttributeError", "no attribute global_long_short_account_ratio"),
   Exc("ConnectionError", ""),
   Exc("ClientError", "HTTP 400")}

\* --------------------------------------------------------------- get_data
Reading(l, s, e) == [long_pc |-> l, short_pc |-> s, error |-> e]
NoReading == Reading(0, 0, Str("unset"))

\* `not data or len(data) == 0`
IsEmpty(d) == d.isNone \/ d.rows = 0

\* Mutant: the resolution order reversed.
TargetColRatioFirst(d) ==
  IF "longAccountRatio" \in Range(d.columns) THEN "longAccountRatio"
  ELSE "longAccount"

\* 'longAccount' if 'longAccount' in df.columns else 'longAccountRatio'
TargetCol(d) ==
  IF "longAccount" \in Range(d.columns) THEN "longAccount"
  ELSE "longAccountRatio"

Column(d, c) == IF c = "longAccount" THEN d.longAccount ELSE d.longAccountRatio

\* astype(float): raises ValueError on a text that is no number.
Converts(col) == \A i \in 1..Len(col) : col[i].kind = "number"
AsFloat(col) == [i \in 1..Len(col) |-> col[i].val]

\* Mutant: the previous mean is not decayed (alpha*x + prev).
EmaStepNoDecay(prev, r, scale) == AlphaNum * r * scale + AlphaDen * prev

\* One step of ewm(span=WINDOW_SIZE, adjust=False).mean(),
\* mean = alpha*r + (1 - alpha)*prev, times AlphaDen: prev is the previous
\* mean times scale, the result the new mean times scale*AlphaDen.
EmaStep(prev, r, scale) == AlphaNum * r * scale + (AlphaDen - AlphaNum) * prev

RECURSIVE Pow(_, _)
Pow(b, n) == IF n = 0 THEN 1 ELSE b * Pow(b, n - 1)
EmaDen(i) == Pow(AlphaDen, i - 1)
\* The mean at index i (1-based), times EmaDen(i).
RECURSIVE EmaNum(_, _)
EmaNum(ratios, i) ==
  IF i = 1 THEN ratios[1]
  ELSE EmaStep(EmaNum(ratios, i - 1), ratios[i], EmaDen(i - 1))

\* round(num/den, 2) of a percentage, in hundredths: nearest, ties to even.
Round2(num, den) ==
  LET q == num \div den
      r == num % den
  IN  IF 2 * r < den THEN q
      ELSE IF 2 * r > den THEN q + 1
      ELSE IF q % 2 = 0 THEN q ELSE q + 1

\* long_pc = round(df['smoothed_long'].iloc[-1], 2)
LongPc(ratios) == Round2(EmaNum(ratios, Len(ratios)), EmaDen(Len(ratios)))
\* Mutant: the complement taken on the ratio scale (1 - long_pc).
ShortPcRatioScale(long_pc) == Round2(100 - long_pc, 1)
\* short_pc = round(100 - long_pc, 2)
ShortPc(long_pc) == Round2(Hundred - long_pc, 1)

EmptyDiagnostic == "API returned no data (check the symbol)"
MissingDiagnostic(d) == "data column not found, columns: [" \o ListStr(d.columns) \o "]"
\* Mutant: the diagnostic is str(e) alone.
DebugDiagnosticBare(e) == e.msg
DebugDiagnostic(e) == "debug: " \o e.msg
ValueError == Exc("ValueError", "could not convert string to float")

ErrorReading(text) == Reading(Neutral, Neutral, Str(text))

\* Lines 29-49 of get_data, on the answer of the client call.
Pipeline(d) ==
  IF IsEmpty(d) THEN ErrorReading(EmptyDiagnostic)
  ELSE IF TargetCol(d) \notin Range(d.columns) THEN ErrorReading(MissingDiagnostic(d))
  ELSE IF ~Converts(Column(d, TargetCol(d))) THEN ErrorReading(DebugDiagnostic(ValueError))
  ELSE LET l == LongPc(AsFloat(Column(d, TargetCol(d))))
       IN  Reading(l, ShortPc(l), None)

\* Mutant: strict comparisons at the thresholds.
ClassifyStrict(r) ==
  IF Truthy(r.error) THEN "error"
  ELSE IF r.long_pc > LongThreshold THEN "warning_long"
  ELSE IF r.long_pc < ShortThreshold THEN "success_short"
  ELSE "none"

\* The banner of the render loop.
Classify(r) ==
  IF Truthy(r.error) THEN "error"
  ELSE IF r.long_pc >= LongThreshold THEN "warning_long"
  ELSE IF r.long_pc <= ShortThreshold THEN "success_short"
  ELSE "none"

\* ------------------------------------------------------------------ state
VARIABLES
  SYMBOLS,          \* the configured symbol list
  pc,               \* where the program is
  idx,              \* position of the for loop in SYMBOLS (1-based)
  data,             \* get_data: the answer of the client call
  target_col,       \* get_data: the column chosen ("" before the choice)
  smoothed,         \* get_data: <<num, den>> of smoothed_long's last value
  reading,          \* what get_data returned: (long_pc, short_pc, error)
  banner,           \* the banner the loop showed for the reading
  bar,              \* <<short_pc, long_pc>> given to create_sentiment_bar
  fetched,          \* symbols get_data was called for in this tick
  rendered,         \* symbols handed to the renderer in this tick
  failedInTick,     \* some symbol of this tick got an error reading
  primaryCalls,     \* calls of global_long_short_account_ratio, this invocation
  secondaryCalls,   \* calls of global_long_short_accounts, this invocation
  primaryExc,       \* what the primary call raised (NoExc: nothing)
  secondaryExc,     \* what the secondary call raised
  everFetched,      \* symbols fetched at least once
  sleptSince,       \* per symbol: seconds slept since its last fetch
  sleepsSinceFetch  \* sleeps since the last fetch of any symbol

vars == <<SYMBOLS, pc, idx, data, target_col, smoothed, reading, banner, bar,
          fetched, rendered, failedInTick, primaryCalls, secondaryCalls,
          primaryExc, secondaryExc, everFetched, sleptSince, sleepsSinceFetch>>

invocation == <<data, target_col, smoothed, reading, primaryCalls,
                secondaryCalls, primaryExc, secondaryExc>>
tick == <<fetched, rendered, failedInTick>>
clock == <<everFetched, sleptSince, sleepsSinceFetch>>

\* The configuration area: the list as shipped, and the list emptied.
SymbolConfigs == {<<>>, DefaultSymbols}
AllSymbols == Range(DefaultSymbols)

NotSmoothed == <<>>
NoBar == <<>>
AgeCap == 3 * SleepSeconds
Min(a, b) == IF a < b THEN a ELSE b

Init ==
  /\ SYMBOLS \in SymbolConfigs
  /\ pc = "startup"
  /\ idx = 1
  /\ data = NoAnswer
  /\ target_col = ""
  /\ smoothed = NotSmoothed
  /\ reading = NoReading
  /\ banner = "unset"
  /\ bar = NoBar
  /\ fetched = <<>>
  /\ rendered = <<>>
  /\ failedInTick = FALSE
  /\ primaryCalls = 0
  /\ secondaryCalls = 0
  /\ primaryExc = NoExc
  /\ secondaryExc = NoExc
  /\ everFetched = {}
  /\ sleptSince = [s \in AllSymbols |-> 0]
  /\ sleepsSinceFetch = 0

\* Mutant: an empty symbol list stops the program before the loop.
StartupValidated ==
  /\ pc = "startup"
  /\ pc' = IF SYMBOLS = <<>> THEN "configuration_error" ELSE "loop"
  /\ UNCHANGED <<SYMBOLS, idx, invocation, banner, bar, tick, clock>>

\* Lines 98-112: page set-up; then `while True`.
Startup ==
  /\ pc = "startup"
  /\ pc' = "loop"
  /\ UNCHANGED <<SYMBOLS, idx, invocation, banner, bar, tick, clock>>

\* Lines 115-119: a tick begins and the for loop starts.
TickStart ==
  /\ pc = "loop"
  /\ pc' = "for"
  /\ idx' = 1
  /\ fetched' = <<>>
  /\ rendered' = <<>>
  /\ failedInTick' = FALSE
  /\ data' = NoAnswer
  /\ target_col' = ""
  /\ smoothed' = NotSmoothed
  /\ reading' = NoReading
  /\ banner' = "unset"
  /\ bar' = NoBar
  /\ primaryCalls' = 0
  /\ secondaryCalls' = 0
  /\ primaryExc' = NoExc
  /\ secondaryExc' = NoExc
  /\ UNCHANGED <<SYMBOLS, clock>>

\* Lines 119-120 and 24: the next symbol; get_data makes the primary call.
GetDataCall ==
  /\ pc = "for"
  /\ idx <= Len(SYMBOLS)
  /\ pc' = "wait_primary"
  /\ fetched' = Append(fetched, SYMBOLS[idx])
  /\ primaryCalls' = 1
  /\ secondaryCalls' = 0
  /\ primaryExc' = NoExc
  /\ secondaryExc' = NoExc
  /\ data' = NoAnswer
  /\ target_col' = ""
  /\ smoothed' = NotSmoothed
  /\ reading' = NoReading
  /\ banner' = "unset"
  /\ bar' = NoBar
  /\ everFetched' = everFetched \cup {SYMBOLS[idx]}
  /\ sleptSince' = [sleptSince EXCEPT ![SYMBOLS[idx]] = 0]
  /\ sleepsSinceFetch' = 0
  /\ UNCHANGED <<SYMBOLS, idx, rendered, failedInTick>>

\* Mutant: the for loop is also left after a symbol failed.
ForDoneOrBreak ==
  /\ pc = "for"
  /\ idx > Len(SYMBOLS) \/ failedInTick
  /\ pc' = "sleep"
  /\ UNCHANGED <<SYMBOLS, idx, invocation, banner, bar, tick, clock>>

\* Line 119: the list is exhausted.
ForDone ==
  /\ pc = "for"
  /\ idx > Len(SYMBOLS)
  /\ pc' = "sleep"
  /\ UNCHANGED <<SYMBOLS, idx, invocation, banner, bar, tick, clock>>

\* Line 24: the primary call returns an answer.
PrimaryReturns ==
  /\ pc = "wait_primary"
  /\ \E d \in Answers : data' = d
  /\ pc' = "have_data"
  /\ UNCHANGED <<SYMBOLS, idx, target_col, smoothed, reading, banner, bar, tick,
                 primaryCalls, secondaryCalls, primaryExc, secondaryExc, clock>>

\* Line 24: the primary call raises.
PrimaryRaises ==
  /\ pc = "wait_primary"
  /\ \E e \in Exceptions : primaryExc' = e
  /\ pc' = "primary_raised"
  /\ UNCHANGED <<SYMBOLS, idx, data, target_col, smoothed, reading, banner, bar,
                 tick, primaryCalls, secondaryCalls, secondaryExc, clock>>

\* Mutant: the fallback is made after any exception of the primary call.
FallbackOnAnyError ==
  /\ pc = "primary_raised"
  /\ secondaryCalls' = secondaryCalls + 1
  /\ pc' = "wait_secondary"
  /\ UNCHANGED <<SYMBOLS, idx, data, target_col, smoothed, reading, banner, bar,
                 tick, primaryCalls, primaryExc, secondaryExc, clock>>

\* Lines 25-27: `except AttributeError` makes the secondary call.
Fallback ==
  /\ pc = "primary_raised"
  /\ primaryExc.type = "AttributeError"
  /\ secondaryCalls' = secondaryCalls + 1
  /\ pc' = "wait_secondary"
  /\ UNCHANGED <<SYMBOLS, idx, data, target_col, smoothed, reading, banner, bar,
                 tick, primaryCalls, primaryExc, secondaryExc, clock>>

\* Line 27: the secondary call returns an answer.
SecondaryReturns ==
  /\ pc = "wait_secondary"
  /\ \E d \in Answers : data' = d
  /\ pc' = "have_data"
  /\ UNCHANGED <<SYMBOLS, idx, target_col, smoothed, reading, banner, bar, tick,
                 primaryCalls, secondaryCalls, primaryExc, secondaryExc, clock>>

\* Line 27: the secondary call raises.
SecondaryRaises ==
  /\ pc = "wait_secondary"
  /\ \E e \in Exceptions : secondaryExc' = e
  /\ pc' = "secondary_raised"
  /\ UNCHANGED <<SYMBOLS, idx, data, target_col, smoothed, reading, banner, bar,
                 tick, primaryCalls, secondaryCalls, primaryExc, clock>>

\* Lines 51-53: `except Exception` turns what a call raised into a reading.
CatchAll ==
  /\ \/ /\ pc = "primary_raised"
        /\ primaryExc.type # "AttributeError"
        /\ reading' = ErrorReading(DebugDiagnostic(primaryExc))
     \/ /\ pc = "secondary_raised"
        /\ reading' = ErrorReading(DebugDiagnostic(secondaryExc))
  /\ pc' = "returned"
  /\ UNCHANGED <<SYMBOLS, idx, data, target_col, smoothed, banner, bar, tick,
                 primaryCalls, secondaryCalls, primaryExc, secondaryExc, clock>>

\* Lines 29-49 (and 51-53 for a failed conversion): the answer is processed.
Process ==
  /\ pc = "have_data"
  /\ reading' = Pipeline(data)
  /\ target_col' = IF IsEmpty(data) THEN "" ELSE TargetCol(data)
  /\ smoothed' =
       IF Pipeline(data).error = None
       THEN LET r == AsFloat(Column(data, TargetCol(data)))
            IN  <<EmaNum(r, Len(r)), EmaDen(Len(r))>>
       ELSE NotSmoothed
  /\ pc' = "returned"
  /\ UNCHANGED <<SYMBOLS, idx, data, banner, bar, tick, primaryCalls,
                 secondaryCalls, primaryExc, secondaryExc, clock>>

\* Lines 122-142: the banner and the bar of the symbol; on to the next.
Render ==
  /\ pc = "returned"
  /\ banner' = Classify(reading)
  /\ bar' = <<reading.short_pc, reading.long_pc>>
  /\ rendered' = Append(rendered, SYMBOLS[idx])
  /\ failedInTick' = (failedInTick \/ Truthy(reading.error))
  /\ idx' = idx + 1
  /\ pc' = "for"
  /\ UNCHANGED <<SYMBOLS, invocation, fetched, clock>>

\* Mutant: the next tick starts without the sleep.
SleepSkipped ==
  /\ pc = "sleep"
  /\ pc' = "loop"
  /\ UNCHANGED <<SYMBOLS, idx, invocation, banner, bar, tick, clock>>

\* Line 145: time.sleep(10), then back to `while True`.
Sleep ==
  /\ pc = "sleep"
  /\ pc' = "loop"
  /\ sleptSince' = [s \in AllSymbols |->
                      IF s \in everFetched
                      THEN Min(AgeCap, sleptSince[s] + SleepSeconds)
                      ELSE sleptSince[s]]
  /\ sleepsSinceFetch' = IF everFetched = {} THEN 0 ELSE Min(2, sleepsSinceFetch + 1)
  /\ UNCHANGED <<SYMBOLS, idx, invocation, banner, bar, tick, everFetched>>

\* The steps of the program, and the steps of the upstream API.
ProgramStep ==
  \/ Startup
  \/ TickStart
  \/ GetDataCall
  \/ ForDone
  \/ Fallback
  \/ CatchAll
  \/ Process
  \/ Render
  \/ Sleep
UpstreamStep ==
  \/ PrimaryReturns
  \/ PrimaryRaises
  \/ SecondaryReturns
  \/ SecondaryRaises

Next == ProgramStep \/ UpstreamStep

Spec == Init /\ [][Next]_vars

\* The program always takes its next step; nothing makes the upstream API
\* answer (the client is built without a timeout).
FairSpec == Spec /\ WF_vars(ProgramStep)

\* ----------------------------------------------------------------- claims
\* What a claim reads of an invocation of get_data.
CallFailed ==
  \/ primaryExc # NoExc /\ primaryExc.type # "AttributeError"
  \/ secondaryExc # NoExc
HasCol(c) == \E i \in 1..Len(data.columns) : data.columns[i] = c
\* The ratio column the spec's resolution order names.
Chosen == IF HasCol("longAccount") THEN data.longAccount ELSE data.longAccountRatio
AllNumbers(col) == \A i \in 1..Len(col) : col[i].kind = "number"
StageFailed ==
  \/ CallFailed
  \/ data.isNone
  \/ data.rows = 0
  \/ ~HasCol("longAccount") /\ ~HasCol("longAccountRatio")
  \/ ~AllNumbers(Chosen)

\* C1: whatever stage of get_data fails (a client call raising, an empty or
\* missing answer, no ratio column, a value that is no number), get_data
\* returns, and returns 50.0, 50.0 and a non-empty diagnostic; it returns
\* no error only when no stage failed.  An exception a call raised is either
\* answered by the fallback call or turned into that reading.
C1_Returned ==
  pc = "returned" =>
    /\ StageFailed <=> reading.error # None
    /\ reading.error # None =>
         /\ reading.long_pc = Neutral
         /\ reading.short_pc = Neutral
         /\ Len(reading.error[1]) > 0
C1_Caught ==
  pc \in {"primary_raised", "secondary_raised"} =>
    \/ pc' = "wait_secondary" /\ pc = "primary_raised"
    \/ pc' = "returned" /\ reading'.error # None
C1_ErrorsBecomeNeutralReadings == []C1_Returned /\ [][C1_Caught]_vars
\* A call raised an exception with an empty message, and get_data returned.
C1_Witness ==
  /\ pc = "returned"
  /\ secondaryExc # NoExc
  /\ secondaryExc.msg = ""
  /\ reading.error # None

\* C2: in every tick the symbols are fetched and rendered once each, in
\* list order, whether or not an earlier symbol of the tick failed; the
\* reading, the bar and the banner of a symbol are those of its own answer.
IsPrefix(s, t) == Len(s) <= Len(t) /\ s = SubSeq(t, 1, Len(s))
C2_EverySymbolOncePerTick ==
  /\ IsPrefix(fetched, SYMBOLS)
  /\ IsPrefix(rendered, SYMBOLS)
  /\ pc = "for" => fetched = rendered /\ Len(rendered) = idx - 1
  /\ pc = "sleep" => fetched = SYMBOLS /\ rendered = SYMBOLS
  /\ pc = "returned" /\ ~CallFailed => reading = Pipeline(data)
  /\ pc = "for" /\ bar # NoBar /\ ~CallFailed =>
       /\ bar = <<Pipeline(data).short_pc, Pipeline(data).long_pc>>
       /\ banner = Classify(Pipeline(data))
\* A tick ended in which a symbol failed and the last symbol succeeded.
C2_Witness ==
  /\ pc = "sleep"
  /\ Len(SYMBOLS) > 1
  /\ failedInTick
  /\ reading.error = None
  /\ rendered = SYMBOLS

\* C3: a reading without error has long_pc + short_pc = 100.00 exactly.
C3_SumIsHundred ==
  pc = "returned" /\ reading.error = None =>
    reading.long_pc + reading.short_pc = Hundred
\* A smoothed reading strictly between the samples of its series.
C3_Witness ==
  /\ pc = "returned"
  /\ reading.error = None
  /\ reading.long_pc \notin RatioVals
  /\ reading.short_pc \notin RatioVals

\* C4: an invocation makes the primary call once, first; it makes the
\* secondary call, once, exactly when the primary raised AttributeError; a
\* failed secondary call ends the invocation with an error reading.
C4_Calls ==
  /\ primaryCalls <= 1
  /\ secondaryCalls <= 1
  /\ pc \in {"wait_primary", "primary_raised", "wait_secondary",
             "secondary_raised", "have_data", "returned"} => primaryCalls = 1
  /\ secondaryCalls = 1 => primaryCalls = 1 /\ primaryExc.type = "AttributeError"
  /\ pc \in {"have_data", "returned"} =>
       (secondaryCalls = 1 <=> primaryExc.type = "AttributeError")
  /\ pc = "returned" /\ secondaryExc # NoExc => reading.error # None
C4_NoRetry ==
  pc = "secondary_raised" =>
    /\ pc' = "returned"
    /\ primaryCalls' = primaryCalls
    /\ secondaryCalls' = secondaryCalls
C4_FallbackOnlyOnAttributeError == []C4_Calls /\ [][C4_NoRetry]_vars
\* The primary call failed on the network and get_data returned.
C4_Witness ==
  /\ pc = "returned"
  /\ primaryExc.type = "ConnectionError"
  /\ secondaryCalls = 0

\* C5: over a non-empty answer, longAccount is used when present (also
\* beside longAccountRatio), longAccountRatio when it alone is present, and
\* with neither the reading is the error naming the columns present, and
\* nothing is smoothed.
C5_Smoothed(col) ==
  LET r == [i \in 1..Len(col) |-> col[i].val]
  IN  /\ reading.error = None
      /\ smoothed = <<EmaNum(r, Len(r)), EmaDen(Len(r))>>
C5_FieldSelection ==
  pc = "returned" /\ ~CallFailed /\ ~data.isNone /\ data.rows > 0 =>
    /\ HasCol("longAccount") =>
         /\ target_col = "longAccount"
         /\ AllNumbers(data.longAccount) => C5_Smoothed(data.longAccount)
    /\ ~HasCol("longAccount") /\ HasCol("longAccountRatio") =>
         /\ target_col = "longAccountRatio"
         /\ AllNumbers(data.longAccountRatio) => C5_Smoothed(data.longAccountRatio)
    /\ ~HasCol("longAccount") /\ ~HasCol("longAccountRatio") =>
         /\ reading.error =
              Str("data column not found, columns: [symbol, longShortRatio, timestamp]")
         /\ smoothed = NotSmoothed
\* Both columns are there, with different values, and the reading is that
\* of longAccount.
C5_Witness ==
  /\ pc = "returned"
  /\ HasCol("longAccount")
  /\ HasCol("longAccountRatio")
  /\ data.longAccount # data.longAccountRatio
  /\ reading.error = None

\* C6: a rendered reading with an error shows only the error; without
\* error it is a long warning iff long_pc >= 65.00, a short warning iff
\* long_pc <= 35.00, and has no banner otherwise.
C6_Classification ==
  pc = "for" /\ banner # "unset" =>
    /\ reading.error # None => banner = "error"
    /\ reading.error = None =>
         /\ banner = "warning_long" <=> reading.long_pc >= 6500
         /\ banner = "success_short" <=> reading.long_pc <= 3500
         /\ banner = "none" <=> (3500 < reading.long_pc /\ reading.long_pc < 6500)
\* A reading of exactly 65.00 got the long warning.
C6_Witness ==
  /\ pc = "for"
  /\ reading.error = None
  /\ reading.long_pc = 6500
  /\ banner = "warning_long"

\* C7: a symbol fetched before is fetched again only after at least
\* SleepSeconds of sleep; the first fetch of a tick follows exactly one
\* sleep since the last fetch, the other fetches of a tick follow none.
C7_Fetch ==
  pc = "for" /\ pc' = "wait_primary" =>
    /\ SYMBOLS[idx] \in everFetched => sleptSince[SYMBOLS[idx]] >= SleepSeconds
    /\ idx = 1 /\ everFetched # {} => sleepsSinceFetch = 1
    /\ idx > 1 => sleepsSinceFetch = 0
C7_OneSleepBetweenTicks == [][C7_Fetch]_vars
\* The first fetch of a later tick: every symbol was fetched before, and
\* the others were last fetched one sleep ago.
C7_Witness ==
  /\ pc = "wait_primary"
  /\ idx = 1
  /\ everFetched = AllSymbols
  /\ \A s \in AllSymbols \ {SYMBOLS[1]} : sleptSince[s] = SleepSeconds

C8_Step ==
  SYMBOLS = <<>> =>
    /\ pc = "startup" => pc' = "loop"
    /\ pc = "loop" => pc' = "for"
    /\ pc = "for" => pc' = "sleep" /\ fetched' = <<>> /\ rendered' = <<>>
    /\ pc = "sleep" => pc' = "loop"
    /\ pc \in {"startup", "loop", "for", "sleep"}
C9_FetchEventuallyReturns ==
  (pc \in {"wait_primary", "wait_secondary"}) ~> (pc = "sleep")

\* C10: for ratios in [0, 1], every mean of the EMA lies between the least
\* and the greatest ratio seen so far, and long_pc and short_pc lie in
\* [0, 100].
C10_Between(r, i) ==
  /\ \E j \in 1..i : r[j] * EmaDen(i) <= EmaNum(r, i)
  /\ \E j \in 1..i : EmaNum(r, i) <= r[j] * EmaDen(i)
C10_EmaBounded ==
  pc = "returned" /\ reading.error = None =>
    LET col == IF target_col = "longAccount" THEN data.longAccount
               ELSE data.longAccountRatio
        r == [i \in 1..Len(col) |-> col[i].val]
    IN  /\ \A i \in 1..Len(r) : C10_Between(r, i)
        /\ smoothed[1] >= 0
        /\ smoothed[1] <= Hundred * smoothed[2]
        /\ reading.long_pc \in 0..Hundred
        /\ reading.short_pc \in 0..Hundred
\* A series of MaxLen samples rising from 0 to 1 was smoothed.
C10_Witness ==
  /\ pc = "returned"
  /\ reading.error = None
  /\ data.rows = MaxLen
  /\ HasCol("longAccount")
  /\ data.longAccount[1].val = 0
  /\ data.longAccount[MaxLen].val = 10000
  /\ reading.long_pc > 0

====
